---- MODULE Spec2Model ----
(***************************************************************************)
(* A model of nas_walker.py (class NASWalker): the depth-bounded recursive *)
(* walk scan_directory over a remote Directory Lister, the run_scan        *)
(* pipeline around it (connect, system info, walk, save, close), and the   *)
(* Markdown report renderer _write_markdown_format.                         *)
(*                                                                          *)
(* Paths are sequences of name components: <<>> is "/", <<"home">> is      *)
(* "/home".  A node is a record with exactly the keys the Python dict has. *)
(***************************************************************************)
EXTENDS Integers, Sequences, FiniteSets, TLC

(***************************************************************************)
(* Bounds of the model.                                                     *)
(***************************************************************************)
\* SpecScan: longest listing the Directory Lister returns, largest max_depth
MaxList == 3
MaxDepth == 2
\* SpecRender: the same for the trees handed to the renderers
MaxRenderList == 2
MaxRenderDepth == 5
\* Spec (run_scan): the same for the walk inside a whole run
MaxRunList == 1
MaxRunDepth == 1
\* SpecWalk: the same for the walk run activation by activation
MaxWalkList == 2
MaxWalkDepth == 2

\* Python's None
None == [none |-> TRUE]

Min(a, b) == IF a < b THEN a ELSE b

Last(s) == s[Len(s)]

Front(s) == SubSeq(s, 1, Len(s) - 1)

(***************************************************************************)
(* Paths: os.path.join and os.path.basename on component sequences.        *)
(***************************************************************************)
\* os.path.join(remote_path, filename), filename a plain entry name
PathJoin(remote_path, filename) == Append(remote_path, filename)

\* os.path.basename(remote_path): "" for the path "/"
Basename(remote_path) == IF remote_path = <<>> THEN "" ELSE Last(remote_path)

(***************************************************************************)
(* The remote side: what the Directory Lister answers.                      *)
(*                                                                          *)
(* An entry is what listdir_attr returns for one name (filename, st_mode,  *)
(* st_size, ...; attr is the outcome of reading its metadata), together    *)
(* with what the server answers when that entry's own path is listed:      *)
(* lists = "tree" (the same listing again: a tree as deep as the walk      *)
(* goes), "empty", or the fault the listing call raises.                    *)
(***************************************************************************)
NamePool == <<"a", "b", "c", "d", "e", "f">>

EntryKinds == {"dir", "dirEmpty", "dirDenied", "dirBroken",
               "file", "metaDenied", "metaBroken", "dot", "dotdot"}

Faults == {"PermissionError", "Exception"}

MkEntry(kind, i) ==
    [filename |-> CASE kind = "dot" -> "."
                    [] kind = "dotdot" -> ".."
                    [] OTHER -> NamePool[i],
     st_mode  |-> IF kind \in {"dir", "dirEmpty", "dirDenied", "dirBroken", "dot", "dotdot"}
                  THEN "dir" ELSE "reg",
     attr     |-> CASE kind = "metaDenied" -> "PermissionError"
                    [] kind = "metaBroken" -> "Exception"
                    [] OTHER -> "none",
     st_size  |-> IF kind = "file" THEN 1024 * i ELSE 0,
     lists    |-> CASE kind = "dir" -> "tree"
                    [] kind = "dirEmpty" -> "empty"
                    [] kind = "dirDenied" -> "PermissionError"
                    [] kind = "dirBroken" -> "Exception"
                    [] OTHER -> "Exception"]

Listings(longest) == UNION {[1..n -> EntryKinds] : n \in 0..longest}

EntriesOf(kinds) == [i \in 1..Len(kinds) |-> MkEntry(kinds[i], i)]

\* The servers of the model, exporting their tree at path base.  healed is
\* a set of directory paths whose listing fault has been repaired.
RemotesAt(base, longest) ==
    {[base |-> base, root |-> "tree", entries |-> EntriesOf(k), healed |-> {}] :
        k \in Listings(longest)}
    \cup {[base |-> base, root |-> f, entries |-> <<>>, healed |-> {}] : f \in Faults}

\* "." and ".." resolved against the components before them
RECURSIVE Normalize(_, _)
Normalize(rel, acc) ==
    IF rel = <<>> THEN acc
    ELSE LET c == Head(rel) IN
         IF c = "." THEN Normalize(Tail(rel), acc)
         ELSE IF c = ".." THEN
              Normalize(Tail(rel), IF acc = <<>> THEN <<>> ELSE Front(acc))
         ELSE Normalize(Tail(rel), Append(acc, c))

\* what listing the directory rel (below base) answers, taken alone
DirStatus(remote, rel) ==
    IF rel = <<>> THEN remote.root
    ELSE LET hits == {i \in 1..Len(remote.entries) :
                         remote.entries[i].filename = Last(rel)}
         IN IF hits = {} THEN "Exception"
            ELSE remote.entries[CHOOSE i \in hits : TRUE].lists

Effective(remote, rel) ==
    LET s == DirStatus(remote, rel)
    IN IF s \in Faults /\ (remote.base \o rel) \in remote.healed THEN "tree" ELSE s

\* sftp_client.listdir_attr(remote_path): the items, or the exception raised
listdir_attr(sftp_client, remote_path) ==
    IF sftp_client = None
    THEN [exc |-> "Exception", items |-> <<>>, called |-> FALSE]
    ELSE
    LET nb == Len(sftp_client.base) IN
    IF Len(remote_path) < nb \/ SubSeq(remote_path, 1, nb) # sftp_client.base
    THEN [exc |-> "Exception", items |-> <<>>, called |-> TRUE]
    ELSE
    LET rel == Normalize(SubSeq(remote_path, nb + 1, Len(remote_path)), <<>>)
        through == \A k \in 0..(Len(rel) - 1) :
                       Effective(sftp_client, SubSeq(rel, 1, k)) = "tree"
        s == Effective(sftp_client, rel)
    IN  IF ~through THEN [exc |-> "Exception", items |-> <<>>, called |-> TRUE]
        ELSE IF s = "tree" THEN [exc |-> "none", items |-> sftp_client.entries, called |-> TRUE]
        ELSE IF s = "empty" THEN [exc |-> "none", items |-> <<>>, called |-> TRUE]
        ELSE [exc |-> s, items |-> <<>>, called |-> TRUE]

(***************************************************************************)
(* The Node Model: the dicts scan_directory builds.                         *)
(***************************************************************************)
ErrorText(exc) == IF exc = "PermissionError" THEN "permission denied" ELSE "str(e)"

ErrorNode(name, path, exc) ==
    [type |-> "error", name |-> name, path |-> path, error |-> ErrorText(exc)]

TruncatedNode(name, path) ==
    [type |-> "directory", name |-> name, path |-> path, truncated |-> TRUE]

FileNode(item, item_path) ==
    [type |-> "file", name |-> item.filename, path |-> item_path,
     size |-> item.st_size, modified |-> "mtime", permissions |-> "644",
     owner |-> 0, group |-> 0]

\* stat.S_ISDIR(item.st_mode): reading the metadata may raise
S_ISDIR(item) ==
    IF item.attr # "none" THEN [exc |-> item.attr, isdir |-> FALSE]
    ELSE [exc |-> "none", isdir |-> item.st_mode = "dir"]

\* only "." is skipped
SkippedNames_DotOnly == {"."}

\* the names the loop skips
SkippedNames == {".", ".."}

\* the descent stops one level early
Descend_Early(current_depth, max_depth) == current_depth + 1 < max_depth

\* whether the loop recurses into a directory entry
Descend(current_depth, max_depth) == current_depth < max_depth

\* the entry guard of scan_directory
PastBound(current_depth, max_depth) == current_depth > max_depth

\* the count is left at its initial 0
ItemCount_Initial(items) == 0

\* result["item_count"] = len(result["items"])
ItemCount(items) == Len(items)

(***************************************************************************)
(* scan_directory.  A result is [raised, node, calls]: the exception that  *)
(* left the call ("none" when it returned), the node returned, and the log *)
(* of listing calls made so far (one path per call, in call order).        *)
(***************************************************************************)
RECURSIVE scan_directory(_, _, _, _, _)
RECURSIVE ScanItems(_, _, _, _, _, _, _, _)

\* the listing fault is raised again instead of becoming a node
CatchListing_Reraise(remote_path, exc, calls) ==
    [raised |-> exc, node |-> None, calls |-> calls]

\* the except clauses around the listing and the loop
CatchListing(remote_path, exc, calls) ==
    [raised |-> "none",
     node   |-> ErrorNode(Basename(remote_path), remote_path, exc),
     calls  |-> calls]

\* the entry's fault leaves the loop
OnEntryFault_Propagate(item, item_path, exc) == [raised |-> exc, node |-> None]

\* the except clauses around one entry
OnEntryFault(item, item_path, exc) ==
    [raised |-> "none", node |-> ErrorNode(item.filename, item_path, exc)]

\* the directory at the bound is listed before it is marked truncated
AtBound_Probe(sftp_client, item, item_path, calls) ==
    [exc |-> "none", node |-> TruncatedNode(item.filename, item_path),
     calls |-> Append(calls, item_path)]

\* a directory entry met at current_depth = max_depth
AtBound(sftp_client, item, item_path, calls) ==
    [exc |-> "none", node |-> TruncatedNode(item.filename, item_path), calls |-> calls]

\* the try body of one entry: [exc, node, calls]
EntryNode(sftp_client, item, item_path, max_depth, current_depth, calls) ==
    LET d == S_ISDIR(item) IN
    IF d.exc # "none" THEN [exc |-> d.exc, node |-> None, calls |-> calls]
    ELSE IF d.isdir
    THEN IF Descend(current_depth, max_depth)
         THEN LET sub == scan_directory(sftp_client, item_path, max_depth,
                                        current_depth + 1, calls)
              IN [exc |-> sub.raised, node |-> sub.node, calls |-> sub.calls]
         ELSE AtBound(sftp_client, item, item_path, calls)
    ELSE [exc |-> "none", node |-> FileNode(item, item_path), calls |-> calls]

\* the for loop, from entry i on; acc is result["items"]
ScanItems(sftp_client, items, i, remote_path, max_depth, current_depth, acc, calls) ==
    IF i > Len(items) THEN [raised |-> "none", items |-> acc, calls |-> calls]
    ELSE
    LET item == items[i] IN
    IF item.filename \in SkippedNames
    THEN ScanItems(sftp_client, items, i + 1, remote_path, max_depth, current_depth,
                   acc, calls)
    ELSE
    LET item_path == PathJoin(remote_path, item.filename)
        t == EntryNode(sftp_client, item, item_path, max_depth, current_depth, calls)
    IN
    IF t.exc = "none"
    THEN ScanItems(sftp_client, items, i + 1, remote_path, max_depth, current_depth,
                   Append(acc, t.node), t.calls)
    ELSE
    LET h == OnEntryFault(item, item_path, t.exc) IN
    IF h.raised = "none"
    THEN ScanItems(sftp_client, items, i + 1, remote_path, max_depth, current_depth,
                   Append(acc, h.node), t.calls)
    ELSE [raised |-> h.raised, items |-> acc, calls |-> t.calls]

scan_directory(sftp_client, remote_path, max_depth, current_depth, calls) ==
    IF PastBound(current_depth, max_depth)
    THEN [raised |-> "none",
          node   |-> [type |-> "directory", name |-> Basename(remote_path),
                      truncated |-> TRUE],
          calls  |-> calls]
    ELSE
    LET r == listdir_attr(sftp_client, remote_path)
        calls1 == IF r.called THEN Append(calls, remote_path) ELSE calls
    IN
    IF r.exc # "none" THEN CatchListing(remote_path, r.exc, calls1)
    ELSE
    LET body == ScanItems(sftp_client, r.items, 1, remote_path, max_depth,
                          current_depth, <<>>, calls1)
    IN IF body.raised # "none" THEN CatchListing(remote_path, body.raised, body.calls)
       ELSE
       [raised |-> "none",
        node   |-> [type |-> "directory",
                    name |-> IF Basename(remote_path) = "" THEN "/"
                             ELSE Basename(remote_path),
                    path |-> remote_path,
                    items |-> body.items,
                    item_count |-> ItemCount(body.items),
                    scan_time |-> Len(calls1)],
        calls  |-> body.calls]

(***************************************************************************)
(* The renderers.  A written file is a sequence of line records.           *)
(***************************************************************************)
Heading(level, icon, text) ==
    [kind |-> "heading", level |-> level, icon |-> icon, text |-> text]

TextLine(label, text) == [kind |-> "text", label |-> label, text |-> text]

\* f"{size_mb:.2f} MB" if size_mb > 0 else "0 B", size_mb = size / (1024 * 1024)
SizeStr(size) ==
    IF size > 0
    THEN [unit |-> "MB", hundredths |-> (size * 200 + 1048576) \div 2097152]
    ELSE [unit |-> "B", hundredths |-> 0]

Get(d, key, default) == IF key \in DOMAIN d THEN d[key] ELSE default

\* the level is not clamped
HeadingLevel_Unclamped(indent) == indent + 2

\* heading_level = min(indent + 2, 6)
HeadingLevel(indent) == Min(indent + 2, 6)

\* every directory child gets its own block
RecurseInto_EveryDirectory(item) == item.type = "directory"

\* the test of the second loop: item["type"] == "directory" and "items" in item
RecurseInto(item) == item.type = "directory" /\ "items" \in DOMAIN item

\* the title, the scan time and the system information, written at indent 0
Preamble(data) ==
    <<Heading(1, "none", "report"), TextLine("scan_time", Get(data, "scan_time", "unknown"))>>
    \o (IF "system_info" \in DOMAIN data
        THEN <<Heading(2, "none", "system"),
               TextLine("os", Get(data.system_info, "system", "unknown")),
               Heading(3, "none", "disk"),
               TextLine("fence", ""),
               TextLine("disk_usage", Get(data.system_info, "disk_usage", "unknown")),
               TextLine("fence", "")>>
        ELSE <<>>)
    \o <<Heading(2, "none", "tree")>>

\* one table row per child
TableRow(item) ==
    CASE item.type = "file" ->
            [kind |-> "row", type |-> "file", name |-> item.name,
             size |-> SizeStr(Get(item, "size", 0)),
             modified |-> Get(item, "modified", "unknown"),
             permissions |-> Get(item, "permissions", "000")]
      [] item.type = "directory" ->
            [kind |-> "row", type |-> "directory", name |-> item.name]
      [] item.type = "error" ->
            [kind |-> "row", type |-> "error", name |-> item.name,
             permissions |-> Get(item, "error", "unknown error")]

RECURSIVE _write_markdown_format(_, _)
RECURSIVE MarkdownChildren(_, _, _)

\* the second loop over data["items"], from child i on
MarkdownChildren(items, i, indent) ==
    IF i > Len(items) THEN <<>>
    ELSE (IF RecurseInto(items[i])
          THEN _write_markdown_format(items[i], indent + 1)
          ELSE <<>>)
         \o MarkdownChildren(items, i + 1, indent)

_write_markdown_format(data, indent) ==
    (IF indent = 0 THEN Preamble(data) ELSE <<>>)
    \o CASE data.type = "directory" ->
               <<Heading(HeadingLevel(indent), "folder", data.name)>>
               \o (IF "items" \in DOMAIN data /\ data.items # <<>>
                   THEN <<TextLine("table_head", ""), TextLine("table_rule", "")>>
                        \o [i \in 1..Len(data.items) |-> TableRow(data.items[i])]
                        \o <<TextLine("blank", "")>>
                        \o MarkdownChildren(data.items, 1, indent)
                   ELSE <<>>)
         [] data.type = "file" ->
               <<[kind |-> "bullet", type |-> "file", name |-> data.name,
                  size |-> SizeStr(Get(data, "size", 0)), path |-> data.path]>>
         [] data.type = "error" ->
               <<[kind |-> "bullet", type |-> "error", name |-> data.name,
                  path |-> data.path, error |-> Get(data, "error", "unknown error")]>>

RECURSIVE _write_text_format(_, _)
RECURSIVE TextChildren(_, _, _)

TextChildren(items, i, indent) ==
    IF i > Len(items) THEN <<>>
    ELSE _write_text_format(items[i], indent + 1) \o TextChildren(items, i + 1, indent)

_write_text_format(data, indent) ==
    CASE data.type = "directory" ->
            <<[kind |-> "DIR", indent |-> indent, name |-> data.name]>>
            \o (IF "items" \in DOMAIN data /\ data.items # <<>>
                THEN TextChildren(data.items, 1, indent)
                ELSE <<>>)
      [] data.type = "file" ->
            <<[kind |-> "FILE", indent |-> indent, name |-> data.name,
               mb_hundredths |-> (Get(data, "size", 0) * 200 + 1048576) \div 2097152]>>
      [] data.type = "error" ->
            <<[kind |-> "ERROR", indent |-> indent, name |-> data.name,
               error |-> Get(data, "error", "unknown error")]>>

OutputFormats == {"json", "txt", "md", "xml"}

\* save_results(data): io is whether opening and writing the file works.
\* [ret, written, content]; an unsupported format or a write fault is caught
\* and reported as False.
save_results(data, output_format, io) ==
    IF output_format \notin {"json", "txt", "md"} \/ io # "ok"
    THEN [ret |-> FALSE, written |-> FALSE, content |-> None]
    ELSE [ret |-> TRUE, written |-> TRUE,
          content |-> CASE output_format = "json" -> [format |-> "json", doc |-> data]
                        [] output_format = "txt" ->
                              [format |-> "txt", lines |-> _write_text_format(data, 0)]
                        [] output_format = "md" ->
                              [format |-> "md", lines |-> _write_markdown_format(data, 0)]]

(***************************************************************************)
(* The channel.  ssh_client and sftp_client hold "None" or the state of    *)
(* the client object: "unconnected" (constructed, connect() failed),       *)
(* "connected" / "open", and "closed" or "close_raised" once close() has   *)
(* been called on it.                                                       *)
(***************************************************************************)
ConnectOutcomes == {"config_error", "connect_fails", "open_sftp_fails", "ok"}

\* connect_to_nas(): every fault is caught and reported as False
connect_to_nas(outcome) ==
    CASE outcome = "config_error" ->
            [ret |-> FALSE, ssh_client |-> "None", sftp_client |-> "None"]
      [] outcome = "connect_fails" ->
            [ret |-> FALSE, ssh_client |-> "unconnected", sftp_client |-> "None"]
      [] outcome = "open_sftp_fails" ->
            [ret |-> FALSE, ssh_client |-> "connected", sftp_client |-> "None"]
      [] outcome = "ok" ->
            [ret |-> TRUE, ssh_client |-> "connected", sftp_client |-> "open"]

\* the run goes on after a failed connect
AfterConnect_Continue(connected) == "params"

\* if not self.connect_to_nas(): return False
AfterConnect(connected) == IF connected THEN "params" ELSE "finally"

\* what self.sftp_client is for the walk: the server behind an open channel
Channel(sftp, server) == IF sftp = "open" THEN server ELSE None

EmptyDict == <<>>

SystemInfos == {EmptyDict, [system |-> "uname -a", disk_usage |-> "df -h"]}

\* get_system_info(): a fault of exec_command is caught and gives {}
get_system_info(ssh, answer) == IF ssh = "connected" THEN answer ELSE EmptyDict

\* if system_info: result["system_info"] = system_info
Attach(node, info) ==
    IF info = EmptyDict THEN node ELSE node @@ [system_info |-> info]

\* close() on one client
Close(client, raises) == IF raises THEN "close_raised" ELSE "closed"

\* a close() that raises leaves the finally clause
Finally_Unguarded(sftp, ssh, sftp_raises, ssh_raises) ==
    [sftp_client |-> IF sftp # "None" THEN Close(sftp, sftp_raises) ELSE sftp,
     ssh_client  |-> IF ssh # "None" /\ ~(sftp # "None" /\ sftp_raises)
                     THEN Close(ssh, ssh_raises) ELSE ssh]

\* the finally clause of run_scan
Finally(sftp, ssh, sftp_raises, ssh_raises) ==
    [sftp_client |-> IF sftp # "None" THEN Close(sftp, sftp_raises) ELSE sftp,
     ssh_client  |-> IF ssh # "None" THEN Close(ssh, ssh_raises) ELSE ssh]

(***************************************************************************)
(* State.                                                                   *)
(***************************************************************************)
VARIABLES
    config,       \* root_path, max_depth, output_format (and depth_text)
    ssh_client,
    sftp_client,
    pc,           \* where the caller or run_scan stands
    remote,       \* the server the walk talks to
    scan,         \* what scan_directory gave: [raised, node, calls]
    result,       \* the data handed to save_results
    system_info,
    output,       \* the content of the output file
    trace,        \* the calls made on the collaborators, in order
    ret           \* what run_scan returned

vars == <<config, ssh_client, sftp_client, pc, remote, scan, result,
          system_info, output, trace, ret>>

RootPaths == {<<>>, <<"home">>}

Event(ev, arg) == [ev |-> ev, arg |-> arg]

ListingEvents(calls) == [i \in 1..Len(calls) |-> Event("listdir_attr", calls[i])]

(***************************************************************************)
(* SpecScan: scan_directory(root_path, max_depth) called on a connected    *)
(* walker, against every server of the bounded family.                      *)
(***************************************************************************)
Connected(depths, formats) ==
    /\ config \in [root_path : RootPaths, max_depth : depths,
                   output_format : formats, depth_text : {"digits"}]
    /\ ssh_client = "connected"
    /\ sftp_client = "open"
    /\ pc = "ready"
    /\ remote = None
    /\ scan = None
    /\ result = None
    /\ system_info = EmptyDict
    /\ output = None
    /\ trace = <<>>
    /\ ret = "None"

InitScan == Connected(0..MaxDepth, {"json"})

ScanCall(longest) ==
    /\ pc = "ready"
    /\ \E server \in RemotesAt(config.root_path, longest) :
          LET r == scan_directory(Channel(sftp_client, server), config.root_path,
                                  config.max_depth, 0, <<>>)
          IN /\ remote' = server
             /\ scan' = r
             /\ result' = r.node
             /\ trace' = trace \o ListingEvents(r.calls)
    /\ pc' = "scanned"
    /\ UNCHANGED <<config, ssh_client, sftp_client, system_info, output, ret>>

NextScan == ScanCall(MaxList)

SpecScan == InitScan /\ [][NextScan]_vars

(***************************************************************************)
(* SpecWalk: the same call of scan_directory, run one step at a time.  The *)
(* activations of scan_directory form a stack (scan.frames, the innermost  *)
(* last); each step is what one activation does between two calls: the     *)
(* entry guard and the listing, one turn of the for loop, or its return.   *)
(* Once the call is made the interpreter runs the next statement whenever  *)
(* there is one, which is the weak fairness of the specification.          *)
(***************************************************************************)
\* no more activations than the interpreter has room for
MaxFrames == MaxWalkDepth + 3

\* the recursive call is made at the caller's own depth
ChildDepth_Same(current_depth) == current_depth

\* the depth handed to the recursive call
ChildDepth(current_depth) == current_depth + 1

\* a fresh activation scan_directory(remote_path, max_depth, current_depth)
Frame(remote_path, current_depth) ==
    [remote_path |-> remote_path, current_depth |-> current_depth,
     phase |-> "call", items |-> <<>>, i |-> 1, acc |-> <<>>,
     scan_time |-> 0, exc |-> "none"]

Walking == pc = "walking"

Frames == IF Walking THEN scan.frames ELSE <<>>

\* the innermost activation hands r = [raised, node] to the callers in rest:
\* the outermost call returns to the caller of the walk, any other resumes
\* the try body of the entry that made the call
Return(rest, r, calls) ==
    IF rest = <<>>
    THEN /\ scan' = [raised |-> r.raised, node |-> r.node, calls |-> calls]
         /\ result' = r.node
         /\ pc' = "scanned"
    ELSE LET caller == Last(rest)
             item == caller.items[caller.i]
             item_path == PathJoin(caller.remote_path, item.filename)
             h == IF r.raised = "none" THEN [raised |-> "none", node |-> r.node]
                  ELSE OnEntryFault(item, item_path, r.raised)
             resumed == IF h.raised = "none"
                        THEN [caller EXCEPT !.acc = Append(@, h.node), !.i = @ + 1]
                        ELSE [caller EXCEPT !.exc = h.raised]
         IN /\ scan' = [scan EXCEPT !.frames = Append(Front(rest), resumed),
                                    !.calls = calls]
            /\ UNCHANGED <<result, pc>>

InitWalk == Connected((-1)..MaxWalkDepth, {"json"}) /\ config.root_path = <<>>

\* the caller invokes scan_directory(root_path, max_depth)
WalkStart ==
    /\ pc = "ready"
    /\ \E server \in RemotesAt(config.root_path, MaxWalkList) : remote' = server
    /\ scan' = [raised |-> "none", node |-> None, calls |-> <<>>,
                frames |-> <<Frame(config.root_path, 0)>>]
    /\ pc' = "walking"
    /\ UNCHANGED <<config, ssh_client, sftp_client, result, system_info, output,
                   trace, ret>>

\* the entry guard and the listing call of the innermost activation
EnterStep ==
    /\ Walking
    /\ Last(scan.frames).phase = "call"
    /\ LET top == Last(scan.frames)
           rest == Front(scan.frames)
       IN IF PastBound(top.current_depth, config.max_depth)
          THEN /\ Return(rest,
                         [raised |-> "none",
                          node   |-> [type |-> "directory",
                                      name |-> Basename(top.remote_path),
                                      truncated |-> TRUE]],
                         scan.calls)
               /\ trace' = trace
          ELSE LET r == listdir_attr(Channel(sftp_client, remote), top.remote_path)
                   calls1 == IF r.called THEN Append(scan.calls, top.remote_path)
                             ELSE scan.calls
               IN /\ trace' = IF r.called
                              THEN Append(trace, Event("listdir_attr", top.remote_path))
                              ELSE trace
                  /\ IF r.exc # "none"
                     THEN Return(rest, CatchListing(top.remote_path, r.exc, calls1),
                                 calls1)
                     ELSE /\ scan' = [scan EXCEPT
                                 !.frames = Append(rest,
                                     [top EXCEPT !.phase = "loop", !.items = r.items,
                                                 !.scan_time = Len(calls1)]),
                                 !.calls = calls1]
                          /\ UNCHANGED <<result, pc>>
    /\ UNCHANGED <<config, ssh_client, sftp_client, remote, system_info, output, ret>>

\* one turn of the for loop of the innermost activation
EntryStep ==
    /\ Walking
    /\ LET top == Last(scan.frames)
           rest == Front(scan.frames)
       IN /\ top.phase = "loop"
          /\ top.exc = "none"
          /\ top.i <= Len(top.items)
          /\ LET item == top.items[top.i]
                 item_path == PathJoin(top.remote_path, item.filename)
                 d == S_ISDIR(item)
                 calling == /\ item.filename \notin SkippedNames
                            /\ d.exc = "none"
                            /\ d.isdir
                            /\ Descend(top.current_depth, config.max_depth)
                 t == IF d.exc # "none"
                      THEN [exc |-> d.exc, node |-> None, calls |-> scan.calls]
                      ELSE IF d.isdir
                      THEN AtBound(Channel(sftp_client, remote), item, item_path,
                                   scan.calls)
                      ELSE [exc |-> "none", node |-> FileNode(item, item_path),
                            calls |-> scan.calls]
                 h == IF t.exc = "none" THEN [raised |-> "none", node |-> t.node]
                      ELSE OnEntryFault(item, item_path, t.exc)
             IN IF item.filename \in SkippedNames
                THEN scan' = [scan EXCEPT
                         !.frames = Append(rest, [top EXCEPT !.i = @ + 1])]
                ELSE IF calling
                THEN /\ Len(scan.frames) < MaxFrames
                     /\ scan' = [scan EXCEPT
                            !.frames = Append(@,
                                Frame(item_path, ChildDepth(top.current_depth)))]
                ELSE scan' = [scan EXCEPT
                         !.frames = Append(rest,
                             IF h.raised = "none"
                             THEN [top EXCEPT !.acc = Append(@, h.node), !.i = @ + 1]
                             ELSE [top EXCEPT !.exc = h.raised]),
                         !.calls = t.calls]
    /\ trace' = IF Len(scan'.calls) > Len(scan.calls)
                THEN Append(trace, Event("listdir_attr", Last(scan'.calls)))
                ELSE trace
    /\ UNCHANGED <<config, ssh_client, sftp_client, pc, remote, result, system_info,
                   output, ret>>

\* the innermost activation returns: its Directory node after the loop, or
\* the node its except clauses make of what the loop raised
ReturnStep ==
    /\ Walking
    /\ LET top == Last(scan.frames)
           rest == Front(scan.frames)
       IN /\ top.phase = "loop"
          /\ (top.exc # "none" \/ top.i > Len(top.items))
          /\ Return(rest,
                    IF top.exc # "none"
                    THEN CatchListing(top.remote_path, top.exc, scan.calls)
                    ELSE [raised |-> "none",
                          node   |-> [type |-> "directory",
                                      name |-> IF Basename(top.remote_path) = ""
                                               THEN "/"
                                               ELSE Basename(top.remote_path),
                                      path |-> top.remote_path,
                                      items |-> top.acc,
                                      item_count |-> ItemCount(top.acc),
                                      scan_time |-> top.scan_time]],
                    scan.calls)
    /\ UNCHANGED <<config, ssh_client, sftp_client, remote, system_info, output,
                   trace, ret>>

NextWalk == WalkStart \/ EnterStep \/ EntryStep \/ ReturnStep

\* what the interpreter does next while a walk is under way
WalkStep == EnterStep \/ EntryStep \/ ReturnStep

SpecWalk == InitWalk /\ [][NextWalk]_vars /\ WF_vars(WalkStep)

(***************************************************************************)
(* SpecRender: a scanned tree, with or without system information, saved   *)
(* in the configured format.                                                *)
(***************************************************************************)
InitRender == Connected(0..MaxRenderDepth, {"md", "txt"})

SaveCall ==
    /\ pc = "scanned"
    /\ \E info \in SystemInfos :
          LET data == Attach(scan.node, info)
              s == save_results(data, config.output_format, "ok")
          IN /\ result' = data
             /\ system_info' = info
             /\ output' = s.content
             /\ trace' = Append(trace, Event("write", config.output_format))
    /\ pc' = "saved"
    /\ UNCHANGED <<config, ssh_client, sftp_client, remote, scan, ret>>

NextRender == ScanCall(MaxRenderList) \/ SaveCall

SpecRender == InitRender /\ [][NextRender]_vars

(***************************************************************************)
(* Spec: one call of run_scan.                                              *)
(***************************************************************************)
RunConfigs ==
    [root_path : RootPaths, max_depth : (-1)..MaxRunDepth,
     output_format : OutputFormats, depth_text : {"digits"}]
    \cup [root_path : RootPaths, max_depth : {0},
          output_format : {"json"}, depth_text : {"junk"}]

Init ==
    /\ config \in RunConfigs
    /\ ssh_client = "None"
    /\ sftp_client = "None"
    /\ pc = "connect"
    /\ remote = None
    /\ scan = None
    /\ result = None
    /\ system_info = EmptyDict
    /\ output = None
    /\ trace = <<>>
    /\ ret = "None"

\* if not self.connect_to_nas(): return False
Connect ==
    /\ pc = "connect"
    /\ \E outcome \in ConnectOutcomes :
          LET c == connect_to_nas(outcome)
          IN /\ ssh_client' = c.ssh_client
             /\ sftp_client' = c.sftp_client
             /\ trace' = Append(trace, Event("connect", outcome))
             /\ pc' = AfterConnect(c.ret)
             /\ ret' = IF AfterConnect(c.ret) = "finally" THEN "False" ELSE ret
    /\ UNCHANGED <<config, remote, scan, result, system_info, output>>

\* root_path = ...; max_depth = int(...): a ValueError goes to except Exception
ReadParams ==
    /\ pc = "params"
    /\ IF config.depth_text = "digits"
       THEN pc' = "system_info" /\ ret' = ret
       ELSE pc' = "finally" /\ ret' = "False"
    /\ UNCHANGED <<config, ssh_client, sftp_client, remote, scan, result,
                   system_info, output, trace>>

\* system_info = self.get_system_info()
GetSystemInfo ==
    /\ pc = "system_info"
    /\ \E answer \in SystemInfos :
          /\ system_info' = get_system_info(ssh_client, answer)
          /\ trace' = IF ssh_client = "connected"
                      THEN Append(trace, Event("exec_command", <<>>))
                      ELSE trace
    /\ pc' = "walk"
    /\ UNCHANGED <<config, ssh_client, sftp_client, remote, scan, result, output, ret>>

\* result = self.scan_directory(root_path, max_depth), then the attachment
Walk ==
    /\ pc = "walk"
    /\ \E server \in RemotesAt(config.root_path, MaxRunList) :
          LET r == scan_directory(Channel(sftp_client, server), config.root_path,
                                  config.max_depth, 0, <<>>)
          IN /\ remote' = server
             /\ scan' = r
             /\ trace' = trace \o ListingEvents(r.calls)
             /\ IF r.raised = "none"
                THEN /\ result' = Attach(r.node, system_info)
                     /\ pc' = "save"
                     /\ ret' = ret
                ELSE /\ result' = None
                     /\ pc' = "finally"
                     /\ ret' = "False"
    /\ UNCHANGED <<config, ssh_client, sftp_client, system_info, output>>

\* if self.save_results(result): return True, else: return False
Save ==
    /\ pc = "save"
    /\ \E io \in {"ok", "fault"} :
          LET s == save_results(result, config.output_format, io)
          IN /\ output' = IF s.written THEN s.content ELSE output
             /\ trace' = IF s.written
                         THEN Append(trace, Event("write", config.output_format))
                         ELSE trace
             /\ ret' = IF s.ret THEN "True" ELSE "False"
    /\ pc' = "finally"
    /\ UNCHANGED <<config, ssh_client, sftp_client, remote, scan, result, system_info>>

\* finally: close what is there, then control is back with the caller
Cleanup ==
    /\ pc = "finally"
    /\ \E sftp_raises \in BOOLEAN, ssh_raises \in BOOLEAN :
          LET f == Finally(sftp_client, ssh_client, sftp_raises, ssh_raises)
          IN /\ sftp_client' = f.sftp_client
             /\ ssh_client' = f.ssh_client
    /\ pc' = "returned"
    /\ remote' = None
    /\ scan' = None
    /\ result' = None
    /\ UNCHANGED <<config, system_info, output, trace, ret>>

Next == Connect \/ ReadParams \/ GetSystemInfo \/ Walk \/ Save \/ Cleanup

Spec == Init /\ [][Next]_vars

(***************************************************************************)
(* Reading a node tree.                                                     *)
(***************************************************************************)
IsDir(n) == n.type = "directory"

\* a Directory node that was listed: it carries its children
Listed(n) == IsDir(n) /\ "items" \in DOMAIN n

IsTruncated(n) == IsDir(n) /\ "truncated" \in DOMAIN n /\ n.truncated

HasPath(n, p) == "path" \in DOMAIN n /\ n.path = p

\* every node of the tree below node, with its depth (node itself at d)
RECURSIVE NodesAt(_, _)
NodesAt(node, d) ==
    {[node |-> node, depth |-> d]}
    \cup (IF "items" \in DOMAIN node
          THEN UNION {NodesAt(node.items[i], d + 1) : i \in 1..Len(node.items)}
          ELSE {})

Scanned == pc = "scanned"

Tree == NodesAt(scan.node, 0)

Calls == scan.calls

\* a node without its timestamps
RECURSIVE Content(_)
Content(n) ==
    IF "items" \in DOMAIN n
    THEN [type |-> n.type, name |-> n.name, path |-> n.path,
          items |-> [i \in 1..Len(n.items) |-> Content(n.items[i])],
          item_count |-> n.item_count]
    ELSE n

IsDotName(e) == e.filename \in {".", ".."}

NotDotName(e) == ~IsDotName(e)

\* what the Directory Lister answered for path p, "." and ".." removed
NonDot(p) == SelectSeq(listdir_attr(remote, p).items, NotDotName)

DepthOf(p) == Len(p) - Len(config.root_path)

NoDuplicates(s) == \A i, j \in 1..Len(s) : i # j => s[i] # s[j]

InSeq(x, s) == \E i \in 1..Len(s) : s[i] = x

(***************************************************************************)
(* C1 (as stated): no node lies deeper than max_depth + 1, and every       *)
(* Directory node at depth exactly max_depth is truncated and has no       *)
(* children.                                                                *)
(***************************************************************************)
C1_AsStated ==
    Scanned =>
        \A x \in Tree :
            /\ x.depth <= config.max_depth + 1
            /\ (IsDir(x.node) /\ x.depth = config.max_depth) =>
                   (IsTruncated(x.node) /\ ~Listed(x.node))

(***************************************************************************)
(* C1 (amended): no node lies deeper than max_depth + 1, and every         *)
(* Directory node at depth exactly max_depth + 1 is truncated and has no   *)
(* children; the directories at depth max_depth and above are listed.      *)
(***************************************************************************)
C1_DepthBound ==
    Scanned =>
        \A x \in Tree :
            /\ x.depth <= config.max_depth + 1
            /\ (IsDir(x.node) /\ x.depth = config.max_depth + 1) =>
                   (IsTruncated(x.node) /\ ~Listed(x.node))
            /\ (IsDir(x.node) /\ x.depth <= config.max_depth) =>
                   (Listed(x.node) /\ ~IsTruncated(x.node))

C1_Witness ==
    /\ Scanned
    /\ config.max_depth >= 1
    /\ \E x \in Tree : x.depth = config.max_depth + 1 /\ IsTruncated(x.node)
    /\ \E x \in Tree : x.depth = config.max_depth /\ Listed(x.node)
                          /\ Len(x.node.items) >= 2

(***************************************************************************)
(* C2: when the listing call for a subdirectory S fails, the call does not *)
(* raise, S is exactly one Error child of its parent with S's name and     *)
(* path, and every sibling is the node it is when S's listing succeeds.    *)
(***************************************************************************)
\* the subdirectories of the listed node x whose own listing call failed
FailedSubdirs(x) ==
    {e \in {NonDot(x.node.path)[k] : k \in 1..Len(NonDot(x.node.path))} :
        /\ e.attr = "none"
        /\ e.st_mode = "dir"
        /\ x.depth < config.max_depth
        /\ listdir_attr(remote, PathJoin(x.node.path, e.filename)).exc # "none"}

C2_ListingFaultIsolated ==
    Scanned =>
        /\ scan.raised = "none"
        /\ \A x \in Tree : Listed(x.node) =>
             \A e \in FailedSubdirs(x) :
                LET S == PathJoin(x.node.path, e.filename)
                    own == scan_directory(remote, S, config.max_depth, x.depth + 1, <<>>)
                    at == {i \in 1..Len(x.node.items) : HasPath(x.node.items[i], S)}
                    mended == [remote EXCEPT !.healed = {S}]
                    other == scan_directory(mended, x.node.path, config.max_depth,
                                            x.depth, <<>>).node
                IN /\ own.raised = "none"
                   /\ Cardinality(at) = 1
                   /\ \A i \in at : /\ x.node.items[i].type = "error"
                                    /\ x.node.items[i].name = e.filename
                   /\ Listed(other)
                   /\ Len(other.items) = Len(x.node.items)
                   /\ \A j \in 1..Len(x.node.items) : j \notin at =>
                          Content(other.items[j]) = Content(x.node.items[j])
                   /\ \A j \in at : Listed(other.items[j])

C2_Witness ==
    /\ Scanned
    /\ \E x \in Tree :
          /\ Listed(x.node)
          /\ x.depth >= 1
          /\ Len(x.node.items) = 3
          /\ FailedSubdirs(x) # {}
          /\ Listed(x.node.items[1])
          /\ Len(x.node.items[1].items) = 3
          /\ x.node.items[2].type = "error"
          /\ InSeq(x.node.items[2].path, Calls)
          /\ x.node.items[3].type = "file"

(***************************************************************************)
(* C3: a fault raised while building the node of one entry gives exactly   *)
(* one Error node for that entry (its name, its joined path) and the loop  *)
(* goes on: a directory whose listing succeeded is a Directory node with   *)
(* one child per entry other than "." and "..".                            *)
(***************************************************************************)
C3_EntryFaultIsolated ==
    Scanned =>
        /\ \A i \in 1..Len(Calls) :
              listdir_attr(remote, Calls[i]).exc = "none" =>
                  \E x \in Tree : HasPath(x.node, Calls[i]) /\ Listed(x.node)
        /\ \A x \in Tree : Listed(x.node) =>
              LET nd == NonDot(x.node.path) IN
              /\ Len(x.node.items) = Len(nd)
              /\ \A k \in 1..Len(nd) : nd[k].attr # "none" =>
                    /\ x.node.items[k].type = "error"
                    /\ x.node.items[k].name = nd[k].filename
                    /\ x.node.items[k].path = PathJoin(x.node.path, nd[k].filename)
                    /\ x.node.items[k].error = ErrorText(nd[k].attr)

C3_Witness ==
    /\ Scanned
    /\ \E x \in Tree :
          /\ Listed(x.node)
          /\ x.depth >= 1
          /\ Len(x.node.items) = 3
          /\ NonDot(x.node.path)[2].attr # "none"
          /\ x.node.items[2].type = "error"
          /\ ~InSeq(x.node.items[2].path, Calls)
          /\ x.node.items[3].type = "file"

(***************************************************************************)
(* C4: in every Directory node that carries children, item_count is the    *)
(* length of items; a Directory node without items records no count.       *)
(***************************************************************************)
C4_CountMatchesChildren ==
    Scanned =>
        \A x \in Tree : IsDir(x.node) =>
            IF "items" \in DOMAIN x.node
            THEN "item_count" \in DOMAIN x.node
                 /\ x.node.item_count = Len(x.node.items)
            ELSE "item_count" \notin DOMAIN x.node

C4_Witness ==
    /\ Scanned
    /\ \E x \in Tree :
          /\ Listed(x.node)
          /\ x.node.item_count = 3
          /\ x.node.items[1].type = "file"
          /\ x.node.items[2].type = "error"
          /\ Listed(x.node.items[3])
    /\ \E x \in Tree :
          /\ Listed(x.node)
          /\ x.node.item_count = 3
          /\ IsTruncated(x.node.items[3])

(***************************************************************************)
(* C5: the Directory Lister is called at most once per path and only for   *)
(* directories at depth <= max_depth; a directory entry found by a listing *)
(* at depth max_depth becomes a truncated Directory node with no children  *)
(* and no listing call, and the other entries of that listing are File     *)
(* nodes as usual.                                                          *)
(***************************************************************************)
C5_ListingCallsBounded ==
    Scanned =>
        /\ NoDuplicates(Calls)
        /\ \A i \in 1..Len(Calls) :
              /\ DepthOf(Calls[i]) <= config.max_depth
              /\ \E x \in Tree : HasPath(x.node, Calls[i]) /\ x.depth = DepthOf(Calls[i])
                                   /\ (Listed(x.node) \/ x.node.type = "error")
        /\ \A x \in Tree : IsTruncated(x.node) =>
              "path" \in DOMAIN x.node /\ ~InSeq(x.node.path, Calls)
        /\ \A x \in Tree : (Listed(x.node) /\ x.depth = config.max_depth) =>
              LET nd == NonDot(x.node.path) IN
              /\ Len(x.node.items) = Len(nd)
              /\ \A k \in 1..Len(nd) : nd[k].attr = "none" =>
                    IF nd[k].st_mode = "dir"
                    THEN IsTruncated(x.node.items[k]) /\ ~Listed(x.node.items[k])
                    ELSE /\ x.node.items[k].type = "file"
                         /\ x.node.items[k].name = nd[k].filename
                         /\ x.node.items[k].size = nd[k].st_size

C5_Witness ==
    /\ Scanned
    /\ config.max_depth >= 1
    /\ Len(Calls) >= 3
    /\ \E x \in Tree :
          /\ Listed(x.node)
          /\ x.depth = config.max_depth
          /\ Len(x.node.items) = 3
          /\ IsTruncated(x.node.items[1])
          /\ x.node.items[2].type = "file"
          /\ IsTruncated(x.node.items[3])

(***************************************************************************)
(* C6: the children of a listed directory are, one for one and in the same *)
(* order, the entries the Directory Lister returned without "." and "..":  *)
(* nothing dropped, duplicated or reordered, files and directories left    *)
(* interleaved, and no node anywhere is named "." or "..".                 *)
(***************************************************************************)
C6_ListingOrderKept ==
    Scanned =>
        /\ \A x \in Tree : x.node.name \notin {".", ".."}
        /\ \A x \in Tree : Listed(x.node) =>
              LET nd == NonDot(x.node.path) IN
              /\ Len(x.node.items) = Len(nd)
              /\ \A k \in 1..Len(nd) :
                    /\ x.node.items[k].name = nd[k].filename
                    /\ HasPath(x.node.items[k], PathJoin(x.node.path, nd[k].filename))
                    /\ (nd[k].attr = "none" =>
                          (IsDir(x.node.items[k]) \/ x.node.items[k].type = "error")
                              = (nd[k].st_mode = "dir"))
                    /\ (nd[k].attr = "none" =>
                          (x.node.items[k].type = "file") = (nd[k].st_mode = "reg"))

C6_Witness ==
    /\ Scanned
    /\ \E x \in Tree :
          /\ Listed(x.node)
          /\ x.depth >= 1
          /\ Len(listdir_attr(remote, x.node.path).items) = 3
          /\ IsDotName(listdir_attr(remote, x.node.path).items[2])
          /\ Len(x.node.items) = 2
          /\ x.node.items[1].type = "file"
          /\ IsDir(x.node.items[2])

(***************************************************************************)
(* Reading a trace and a written report.                                    *)
(***************************************************************************)
Returned == pc = "returned"

Happened(ev) == \E i \in 1..Len(trace) : trace[i].ev = ev

ConnectedAs(outcomes) ==
    \E i \in 1..Len(trace) : trace[i].ev = "connect" /\ trace[i].arg \in outcomes

ConnectFailed == ConnectedAs(ConnectOutcomes \ {"ok"})

Released(client) == client \in {"closed", "close_raised"}

(***************************************************************************)
(* C7: when run_scan returns, on whichever path, close() has been called   *)
(* on every channel that was acquired (the SSH client, and the SFTP client *)
(* if it was opened); a close() that raises does not keep the other        *)
(* channel from being closed.                                               *)
(***************************************************************************)
C7_ChannelsReleased ==
    Returned =>
        /\ ConnectedAs({"open_sftp_fails", "ok"}) => Released(ssh_client)
        /\ ConnectedAs({"ok"}) => Released(sftp_client)
        /\ ssh_client # "connected"
        /\ sftp_client # "open"

C7_Witness ==
    /\ Returned
    /\ ret = "False"
    /\ Happened("listdir_attr")
    /\ ~Happened("write")
    /\ sftp_client = "close_raised"
    /\ ssh_client = "closed"

(***************************************************************************)
(* C8: a failed connect makes run_scan return False with no listing call,  *)
(* no system-info query and nothing written; in every run each listing     *)
(* call comes after a successful connect, and the one write comes after    *)
(* every listing call and writes the tree the walk returned.               *)
(***************************************************************************)
C8_ConnectWalkSave ==
    /\ ConnectFailed =>
          /\ \A i \in 1..Len(trace) : trace[i].ev = "connect"
          /\ pc \in {"finally", "returned"}
          /\ ret = "False"
          /\ output = None
    /\ \A j \in 1..Len(trace) : trace[j].ev \in {"listdir_attr", "exec_command"} =>
          \E i \in 1..(j - 1) : trace[i] = Event("connect", "ok")
    /\ \A j \in 1..Len(trace) : trace[j].ev = "write" =>
          /\ j = Len(trace)
          /\ \E i \in 1..(j - 1) : trace[i] = Event("connect", "ok")
    /\ (pc = "finally" /\ Happened("write")) =>
          /\ scan # None
          /\ scan.raised = "none"
          /\ result = Attach(scan.node, system_info)
          /\ output = save_results(result, config.output_format, "ok").content
          /\ ret = "True"
    /\ (pc = "save") => (scan # None /\ ~Happened("write"))

C8_Witness ==
    /\ Returned
    /\ ret = "False"
    /\ trace = <<Event("connect", "open_sftp_fails")>>
    /\ ssh_client = "closed"

(***************************************************************************)
(* The report: the folder headings written, and the directories of a tree  *)
(* in the order the renderer meets them.                                    *)
(***************************************************************************)
SavedReport == pc = "saved" /\ config.output_format = "md"

IsHeading(line) == line.kind = "heading"

IsFolderHeading(line) == line.kind = "heading" /\ line.icon = "folder"

IsTableHead(line) == line.kind = "text" /\ line.label = "table_head"

FolderHeadings == SelectSeq(output.lines, IsFolderHeading)

HasChildren(n) == Listed(n) /\ n.items # <<>>

\* node and, depth first in listing order, the nested directories that were listed
RECURSIVE BlocksListed(_, _)
RECURSIVE BlocksListedFrom(_, _, _)
BlocksListedFrom(items, i, d) ==
    IF i > Len(items) THEN <<>>
    ELSE (IF Listed(items[i]) THEN BlocksListed(items[i], d + 1) ELSE <<>>)
         \o BlocksListedFrom(items, i + 1, d)

BlocksListed(node, d) ==
    <<[name |-> node.name, depth |-> d]>>
    \o (IF "items" \in DOMAIN node THEN BlocksListedFrom(node.items, 1, d) ELSE <<>>)

\* node and, depth first in listing order, the nested directories that have children
RECURSIVE BlocksWithChildren(_, _)
RECURSIVE BlocksWithChildrenFrom(_, _, _)
BlocksWithChildrenFrom(items, i, d) ==
    IF i > Len(items) THEN <<>>
    ELSE (IF HasChildren(items[i]) THEN BlocksWithChildren(items[i], d + 1) ELSE <<>>)
         \o BlocksWithChildrenFrom(items, i + 1, d)

BlocksWithChildren(node, d) ==
    <<[name |-> node.name, depth |-> d]>>
    \o (IF "items" \in DOMAIN node THEN BlocksWithChildrenFrom(node.items, 1, d) ELSE <<>>)

NamesOf(blocks) == [i \in 1..Len(blocks) |-> blocks[i].name]

TextsOf(lines) == [i \in 1..Len(lines) |-> lines[i].text]

NestedIn(node) == {x \in NodesAt(node, 0) : x.depth >= 1}

(***************************************************************************)
(* C9 (as stated): besides the root, exactly the nested Directories that   *)
(* have children get a heading of their own, in listing order.             *)
(***************************************************************************)
C9_AsStated ==
    (SavedReport /\ IsDir(result)) =>
        TextsOf(FolderHeadings) = NamesOf(BlocksWithChildren(result, 0))

(***************************************************************************)
(* C9 (amended): besides the root, exactly the nested Directories that     *)
(* were listed (not truncated) get a heading of their own, depth first in  *)
(* listing order; the heading is followed by a table only when the         *)
(* Directory has children, so a listed empty Directory gets a bare heading *)
(* and a truncated one none; File and Error children get no heading.       *)
(***************************************************************************)
C9_HeadingPerListedDirectory ==
    SavedReport =>
        IF IsDir(result)
        THEN /\ TextsOf(FolderHeadings) = NamesOf(BlocksListed(result, 0))
             /\ Len(SelectSeq(output.lines, IsTableHead))
                    = Cardinality({x \in NodesAt(result, 0) : HasChildren(x.node)})
        ELSE FolderHeadings = <<>>

C9_Witness ==
    /\ SavedReport
    /\ IsDir(result)
    /\ \E x \in NestedIn(result) : IsTruncated(x.node)
    /\ \E x \in NestedIn(result) : Listed(x.node) /\ x.node.items = <<>>
    /\ \E x \in NestedIn(result) : HasChildren(x.node)
    /\ Len(FolderHeadings) >= 4

(***************************************************************************)
(* C10: every heading of the report has a level from 1 to 6, and the       *)
(* heading of the Directory rendered at depth d has level min(d + 2, 6),   *)
(* which is 6 from depth 4 on.                                              *)
(***************************************************************************)
C10_HeadingLevelClamped ==
    SavedReport =>
        /\ \A i \in 1..Len(output.lines) :
              IsHeading(output.lines[i]) => output.lines[i].level \in 1..6
        /\ IsDir(result) =>
              LET blocks == BlocksListed(result, 0) IN
              /\ Len(FolderHeadings) = Len(blocks)
              /\ \A i \in 1..Len(blocks) :
                    /\ FolderHeadings[i].level = Min(blocks[i].depth + 2, 6)
                    /\ blocks[i].depth >= 4 => FolderHeadings[i].level = 6

C10_Witness ==
    /\ SavedReport
    /\ IsDir(result)
    /\ "system_info" \in DOMAIN result
    /\ \E i \in 1..Len(BlocksListed(result, 0)) : BlocksListed(result, 0)[i].depth = 5
    /\ \E i \in 1..Len(BlocksListed(result, 0)) : BlocksListed(result, 0)[i].depth = 4

(***************************************************************************)
(* Reading a walk in progress.                                              *)
(***************************************************************************)
\* the directory entries of a listing that the walk takes for directories
SubdirNames(p) ==
    LET nd == NonDot(p)
    IN {nd[k].filename : k \in {j \in 1..Len(nd) : S_ISDIR(nd[j]).isdir}}

\* the directory paths of the remote tree from p (at depth d) down to max_depth
RECURSIVE DirPathsFrom(_, _)
DirPathsFrom(p, d) ==
    IF d > config.max_depth THEN {}
    ELSE {p} \cup UNION {DirPathsFrom(PathJoin(p, n), d + 1) : n \in SubdirNames(p)}

DirPaths == DirPathsFrom(config.root_path, 0)

\* the walk returned what scan_directory gives in one piece
ReturnedAsComputed ==
    scan = scan_directory(Channel(sftp_client, remote), config.root_path,
                          config.max_depth, 0, <<>>)

\* a state of the walk in which nothing has gone wrong
WalkSafe ==
    /\ Walking =>
          /\ Len(Frames) <= (IF config.max_depth < 0 THEN 1 ELSE config.max_depth + 1)
          /\ Len(Frames) < MaxFrames
          /\ \A k \in 1..Len(Frames) : Frames[k].current_depth = k - 1
          /\ \A k \in 1..Len(Frames) : Frames[k].exc = "none"
    /\ (Walking \/ Scanned) =>
          /\ Len(Calls) <= Cardinality(DirPaths)
          /\ \A k \in 1..Len(Calls) : Calls[k] \in DirPaths
    /\ Scanned =>
          /\ scan.raised = "none"
          /\ scan.node.type \in {"directory", "error"}
          /\ ReturnedAsComputed

(***************************************************************************)
(* C11: for every max_depth and every server of the family, a tree that    *)
(* goes on below every directory and listings that fail included, the walk *)
(* once called returns: it returns a Directory or Error node and raises    *)
(* nothing, it never holds more than max_depth + 1 activations (one when   *)
(* max_depth is negative), and it makes no more listing calls than there   *)
(* are directory paths at depth <= max_depth.                               *)
(***************************************************************************)
C11_WalkTerminates ==
    /\ []WalkSafe
    /\ Walking ~> Scanned

C11_Witness ==
    /\ Scanned
    /\ config.max_depth = MaxWalkDepth
    /\ Len(remote.entries) = 2
    /\ remote.entries[1].lists = "tree"
    /\ remote.entries[2].lists \in Faults
    /\ remote.entries[2].st_mode = "dir"
    /\ Len(Calls) = Cardinality(DirPaths)
    /\ Len(Calls) >= 2 * MaxWalkDepth + 1
    /\ \E x \in Tree : x.depth = MaxWalkDepth /\ x.node.type = "error"
    /\ \E x \in Tree : x.depth = MaxWalkDepth + 1 /\ IsTruncated(x.node)
====
